---------------------------- MODULE Spec2Model ----------------------------
(***************************************************************************)
(* CrosswordCreator of src/Optimization/crossword/generate.py: the         *)
(* node-consistency filter, AC-3 and the backtracking entry of solve().    *)
(*                                                                         *)
(* A word is a sequence of letters; Python's 0-based index k of a word is  *)
(* element k + 1 of the sequence.  A puzzle is what generate.py reads from  *)
(* its Crossword object: the variables, each variable's length and the     *)
(* overlaps map (None for a pair that does not cross).  Python iterates a  *)
(* set in an order the program does not fix, so every iteration over a set *)
(* that builds a list is a choice among the permutations of that set.      *)
(***************************************************************************)
EXTENDS Integers, Sequences, FiniteSets, TLC

\* ----------------------------------------------------------------- bounds

\* The largest word list the model draws.
MaxWords == 4

\* How many times the direct caller of ac3() calls it in a row (SpecAc3).
MaxCalls == 2

\* ------------------------------------------------------------ the inputs

Letters == {"a", "b"}

\* Every word over Letters of 2 or 3 letters.
Universe == [1..2 -> Letters] \cup [1..3 -> Letters]

\* The word lists: every set of at most MaxWords words of the universe.
WordLists == {W \in SUBSET Universe : Cardinality(W) <= MaxWords}

\* The word list of the cross-shaped example.
ExampleWords ==
    {<<"C", "A", "T">>, <<"D", "O", "G">>, <<"T", "I", "P">>, <<"A", "C", "E">>}

\* The lists of at most MaxWords words of 4 letters.
WordLists4 == {W \in SUBSET [1..4 -> Letters] : Cardinality(W) <= MaxWords}

None == "None"

\* overlaps of a puzzle without crossings.
NoOverlaps == [p \in {} |-> <<0, 0>>]

\* A structure without any slot of two or more cells: no variable.
PuzzleEmpty == [vars |-> {}, length |-> [v \in {} |-> 0], overlaps |-> NoOverlaps]

\* One ACROSS slot of 2 cells.
PuzzleSingle == [vars |-> {"x"}, length |-> [v \in {"x"} |-> 2], overlaps |-> NoOverlaps]

\* Two slots of 2 cells that do not cross.
PuzzleApart ==
    [vars |-> {"x", "y"}, length |-> [v \in {"x", "y"} |-> 2], overlaps |-> NoOverlaps]

\* The cross: an ACROSS and a DOWN slot of 3 cells sharing their middle cell.
PuzzleCross ==
    [vars |-> {"x", "y"}, length |-> [v \in {"x", "y"} |-> 3],
     overlaps |-> (<<"x", "y">> :> <<1, 1>>) @@ (<<"y", "x">> :> <<1, 1>>)]

\* The C shape: x ACROSS (2 cells) on the top row, y DOWN (3 cells) on the
\* left column, z ACROSS (3 cells) on the bottom row.
PuzzleChain ==
    [vars |-> {"x", "y", "z"},
     length |-> ("x" :> 2) @@ ("y" :> 3) @@ ("z" :> 3),
     overlaps |-> (<<"x", "y">> :> <<0, 0>>) @@ (<<"y", "x">> :> <<0, 0>>) @@
                  (<<"y", "z">> :> <<2, 0>>) @@ (<<"z", "y">> :> <<0, 2>>)]

\* An ACROSS and a DOWN slot of 4 cells: the second cell of the one is the
\* third cell of the other.
PuzzleCross4 ==
    [vars |-> {"x", "y"}, length |-> [v \in {"x", "y"} |-> 4],
     overlaps |-> (<<"x", "y">> :> <<1, 2>>) @@ (<<"y", "x">> :> <<2, 1>>)]

Puzzles == {PuzzleEmpty, PuzzleSingle, PuzzleApart, PuzzleCross, PuzzleChain}

\* ------------------------------------------------------------- the state

VARIABLES
    crossword,   \* self.crossword: the puzzle (variables, lengths, overlaps)
    words,       \* self.crossword.words: the word list
    domains,     \* self.domains: variable -> set of words
    pc,          \* where the caller of the CrosswordCreator stands
    queue,       \* ac3's local worklist of arcs <<x, y>>
    ac3ret,      \* what the last ac3 call returned: "unset", "True", "False"
    calls,       \* how many ac3 calls have begun
    entry,       \* self.domains as they were when the current ac3 call began
    btcalls,     \* how many times backtrack has been invoked
    outcome,     \* how solve ended: "running", "assignment", "None", "NameError"
    result,      \* the assignment solve returned (outcome = "assignment")
    call,        \* the last direct call of a method: its arguments and result
    frame        \* backtrack's call: var, the candidates its loop has reached,
                 \* the assignments it has handed to consistent and those it
                 \* has handed to nested backtrack calls

vars == <<crossword, words, domains, pc, queue, ac3ret, calls, entry, btcalls,
          outcome, result, call, frame>>

Variables == crossword.vars

\* dict(): the empty assignment.
EmptyAssignment == [v \in {} |-> <<>>]

\* No method has been called directly.
NoCall == [op |-> "none"]

\* backtrack not entered, or returned before it selected a variable.
NoFrame == [var |-> None, tried |-> <<>>, checked |-> <<>>, nested |-> <<>>]

\* self.crossword.overlaps[x, y]
Overlap(x, y) ==
    IF <<x, y>> \in DOMAIN crossword.overlaps THEN crossword.overlaps[<<x, y>>] ELSE None

\* self.crossword.neighbors(var)
Neighbors(var) == {v \in Variables : <<var, v>> \in DOMAIN crossword.overlaps}

\* The orders in which a for loop may iterate the set S.
Orders(S) ==
    {o \in [1..Cardinality(S) -> S] : \A i, j \in DOMAIN o : i # j => o[i] # o[j]}

\* __init__: every variable's domain is a copy of the whole word list.
Init ==
    /\ \/ crossword \in Puzzles /\ words \in WordLists \cup {ExampleWords}
       \/ crossword = PuzzleCross4 /\ words \in WordLists4
    /\ domains = [v \in crossword.vars |-> words]
    /\ pc = "solve"
    /\ queue = <<>>
    /\ ac3ret = "unset"
    /\ calls = 0
    /\ entry = domains
    /\ btcalls = 0
    /\ outcome = "running"
    /\ result = EmptyAssignment
    /\ call = NoCall
    /\ frame = NoFrame

\* ----------------------------------------------- enforce_node_consistency

\* A filter that removes only the words that are too long.
NodeConsistentAtMost(dom, key) ==
    {value \in dom[key] : Len(value) <= crossword.length[key]}

\* The domain of key after its words of another length are removed.
NodeConsistent(dom, key) == {value \in dom[key] : Len(value) = crossword.length[key]}

EnforceNodeConsistency ==
    /\ pc = "solve"
    /\ domains' = [key \in DOMAIN domains |-> NodeConsistent(domains, key)]
    /\ pc' = "ac3_call"
    /\ UNCHANGED <<crossword, words, queue, ac3ret, calls, entry, btcalls, outcome, result, call, frame>>

\* ------------------------------------------------------------ neighborhood

\* A neighborhood that pairs var with every other variable, crossing or not.
NeighborhoodEveryVariable(var) ==
    {[k \in DOMAIN o |-> <<var, o[k]>>] : o \in Orders(Variables \ {var})}

\* neighborhood(var): the lists of pairs <<var, neighbor>> the loop over the
\* set of neighbors may build.
Neighborhood(var) ==
    {[k \in DOMAIN o |-> <<var, o[k]>>] : o \in Orders(Neighbors(var))}

\* ------------------------------------------------------------------ revise

\* The inner loop without the test that the two words differ.
SatisfiesSame(dom, x, y, value) ==
    LET w == Overlap(x, y)[1]
        z == Overlap(x, y)[2]
    IN  \E corresp_value \in dom[y] : value[w + 1] = corresp_value[z + 1]

\* The inner loop with the two offsets of the overlap unpacked the other
\* way round.
SatisfiesSwapped(dom, x, y, value) ==
    LET w == Overlap(x, y)[2]
        z == Overlap(x, y)[1]
    IN  \E corresp_value \in dom[y] :
            /\ value # corresp_value
            /\ value[w + 1] = corresp_value[z + 1]

\* Whether some word of y's domain other than value agrees with value at the
\* overlap of (x, y): the inner loop of revise.
Satisfies(dom, x, y, value) ==
    LET w == Overlap(x, y)[1]
        z == Overlap(x, y)[2]
    IN  \E corresp_value \in dom[y] :
            /\ value # corresp_value
            /\ value[w + 1] = corresp_value[z + 1]

\* toDelete collecting the words that do have a partner.
ToDeleteSatisfied(dom, x, y) == {value \in dom[x] : Satisfies(dom, x, y, value)}

\* toDelete of revise(x, y).
ToDelete(dom, x, y) == {value \in dom[x] : ~Satisfies(dom, x, y, value)}

\* revise on domains that all are one and the same set object (the word
\* list shared instead of copied by __init__): a removal shows in every domain.
ReviseShared(dom, x, y) == [v \in DOMAIN dom |-> dom[v] \ ToDelete(dom, x, y)]

\* self.domains after revise(x, y).
Revise(dom, x, y) == [dom EXCEPT ![x] = dom[x] \ ToDelete(dom, x, y)]

\* revise reporting a revision whether or not it removed a word.
RevisedAlways(dom, x, y) == TRUE

\* What revise(x, y) returns.
Revised(dom, x, y) == ToDelete(dom, x, y) # {}

\* --------------------------------------------------------------------- ac3

\* The queues ac3 builds when arcs is None: for var in the variables, in
\* some order, queue += neighborhood(var).
RECURSIVE QueuesFrom(_, _)
QueuesFrom(order, k) ==
    IF k > Len(order) THEN {<<>>}
    ELSE {a \o b : a \in Neighborhood(order[k]), b \in QueuesFrom(order, k + 1)}

AllArcs == UNION {QueuesFrom(order, 1) : order \in Orders(Variables)}

\* The arcs ac3 appends after revise(x, y) removed a word and left x's
\* domain non-empty: (x, z) for z in neighbors(x) - {y}.
Requeued(x, y) ==
    {[k \in DOMAIN o |-> <<x, o[k]>>] : o \in Orders(Neighbors(x) \ {y})}

\* solve, line 93: self.ac3(), the queue seeded with every arc.
Ac3Begin ==
    /\ pc = "ac3_call"
    /\ queue' \in AllArcs
    /\ calls' = calls + 1
    /\ entry' = domains
    /\ ac3ret' = "unset"
    /\ pc' = "ac3_loop"
    /\ UNCHANGED <<crossword, words, domains, btcalls, outcome, result, call, frame>>

\* One iteration of ac3's while loop.
Ac3Step ==
    /\ pc = "ac3_loop"
    /\ queue # <<>>
    /\ LET x == Head(queue)[1]
           y == Head(queue)[2]
       IN  /\ domains' = Revise(domains, x, y)
           /\ IF Revised(domains, x, y)
              THEN IF domains'[x] = {}
                   THEN /\ ac3ret' = "False"
                        /\ queue' = <<>>
                        /\ pc' = "ac3_ret"
                   ELSE /\ \E more \in Requeued(x, y) : queue' = Tail(queue) \o more
                        /\ UNCHANGED <<ac3ret, pc>>
              ELSE /\ queue' = Tail(queue)
                   /\ UNCHANGED <<ac3ret, pc>>
    /\ UNCHANGED <<crossword, words, calls, entry, btcalls, outcome, result, call, frame>>

\* The while loop ends on the empty queue: return True.
Ac3Exit ==
    /\ pc = "ac3_loop"
    /\ queue = <<>>
    /\ ac3ret' = "True"
    /\ pc' = "ac3_ret"
    /\ UNCHANGED <<crossword, words, domains, queue, calls, entry, btcalls, outcome, result, call, frame>>

\* A direct caller of ac3() calls it again on the domains a successful call
\* left.
Ac3Again ==
    /\ pc = "ac3_ret"
    /\ ac3ret = "True"
    /\ calls < MaxCalls
    /\ queue' \in AllArcs
    /\ calls' = calls + 1
    /\ entry' = domains
    /\ ac3ret' = "unset"
    /\ pc' = "ac3_loop"
    /\ UNCHANGED <<crossword, words, domains, btcalls, outcome, result, call, frame>>

\* --------------------------------------------------------------- backtrack

\* consistent(assignment): every assigned variable against each of its
\* assigned neighbors.
Consistent(assignment) ==
    \A var \in DOMAIN assignment : \A neighbor \in Neighbors(var) :
        neighbor \in DOMAIN assignment =>
            /\ assignment[var] # assignment[neighbor]
            /\ LET i == Overlap(var, neighbor)[1]
                   j == Overlap(var, neighbor)[2]
               IN  assignment[var][i + 1] = assignment[neighbor][j + 1]

\* A completeness test that accepts every assignment.
AssignmentCompleteAlways(assignment) == TRUE

AssignmentComplete(assignment) == \A var \in Variables : var \in DOMAIN assignment

\* The loop breaking a tie on the domain size by the lower degree.
RECURSIVE SelectFromLowDegree(_, _, _, _)
SelectFromLowDegree(order, k, assignment, better) ==
    IF k > Len(order) THEN better[1]
    ELSE LET var == order[k]
             domain_len == Cardinality(domains[var])
             neighAvailable == Cardinality(Neighbors(var) \ DOMAIN assignment)
             next == IF better[1] = None \/ domain_len < better[2]
                     THEN <<var, domain_len, neighAvailable>>
                     ELSE IF domain_len = better[2] /\ neighAvailable < better[3]
                          THEN <<var, domain_len, neighAvailable>>
                          ELSE better
         IN  SelectFromLowDegree(order, k + 1, assignment, next)

\* select_unassigned_variable, iterating the unassigned variables in the
\* given order: better is <<variable, domain_len, neighbor_len>>.
RECURSIVE SelectFrom(_, _, _, _)
SelectFrom(order, k, assignment, better) ==
    IF k > Len(order) THEN better[1]
    ELSE LET var == order[k]
             domain_len == Cardinality(domains[var])
             neighAvailable == Cardinality(Neighbors(var) \ DOMAIN assignment)
             next == IF better[1] = None \/ domain_len < better[2]
                     THEN <<var, domain_len, neighAvailable>>
                     ELSE IF domain_len = better[2] /\ neighAvailable > better[3]
                          THEN <<var, domain_len, neighAvailable>>
                          ELSE better
         IN  SelectFrom(order, k + 1, assignment, next)

\* A selection that ignores the domain sizes: any unassigned variable.
SelectAnyUnassigned(assignment) == Variables \ DOMAIN assignment

\* The variables select_unassigned_variable may return.
SelectUnassignedVariable(assignment) ==
    {SelectFrom(order, 1, assignment, <<None, 500, -1>>) :
        order \in Orders(Variables \ DOMAIN assignment)}

\* A count of the words of neighbor's domain that agree with word.
RuledOutAgreeing(var, neighbor, word) ==
    LET x == Overlap(var, neighbor)[1]
        y == Overlap(var, neighbor)[2]
    IN  Cardinality({value \in domains[neighbor] : value[y + 1] = word[x + 1]})

\* How many words of neighbor's domain disagree with word at the overlap.
RuledOut(var, neighbor, word) ==
    LET x == Overlap(var, neighbor)[1]
        y == Overlap(var, neighbor)[2]
    IN  Cardinality({value \in domains[neighbor] : value[y + 1] # word[x + 1]})

RECURSIVE SumRuledOut(_, _, _)
SumRuledOut(var, remains, word) ==
    IF remains = {} THEN 0
    ELSE LET neighbor == CHOOSE n \in remains : TRUE
         IN  RuledOut(var, neighbor, word) + SumRuledOut(var, remains \ {neighbor}, word)

\* varDomain[word] of order_domain_values when its loops have run.
VarDomain(var, assignment, word) ==
    SumRuledOut(var, Neighbors(var) \ DOMAIN assignment, word)

\* sorted(varDomain.items(), key=lambda x: x[1]) and the list of its keys:
\* items is the dict's keys in insertion order, varDomain the dict; the sort
\* is stable, so a word goes behind every word of a smaller count and behind
\* the words of the same count that come before it in items.
Sorted(items, varDomain) ==
    LET rank(k) == Cardinality({i \in DOMAIN items :
                       \/ varDomain[items[i]] < varDomain[items[k]]
                       \/ varDomain[items[i]] = varDomain[items[k]] /\ i <= k})
    IN  [p \in DOMAIN items |-> items[CHOOSE k \in DOMAIN items : rank(k) = p]]

\* The lists order_domain_values may return: the dict varDomain is built in
\* the order the set domains[var] is iterated, filled with the counts, then
\* sorted by the count.
OrderDomainValues(var, assignment) ==
    UNION {{Sorted(items, varDomain) : items \in Orders(domains[var])} :
              varDomain \in {[word \in domains[var] |-> VarDomain(var, assignment, word)]}}

\* How backtrack ends once it has its list of candidates: on the empty list
\* the for loop runs no iteration and line 283 returns None; otherwise the
\* first iteration evaluates assigment.copy() (line 272), a name that is
\* bound nowhere, and NameError is raised.
BacktrackOutcome(domain) == IF domain = <<>> THEN "None" ELSE "NameError"

\* solve, line 94: backtrack(dict()).  With every variable assigned the
\* assignment is returned; with an empty candidate list the loop body never
\* runs and None is returned; otherwise the first iteration evaluates
\* assigment.copy(), a name that is bound nowhere, and NameError is raised:
\* the loop has reached its first candidate and lines 275 and 279 were never
\* executed, so nothing was handed to consistent or to a nested backtrack.
Backtrack ==
    /\ pc = "ac3_ret"
    /\ btcalls' = btcalls + 1
    /\ pc' = "done"
    /\ IF AssignmentComplete(EmptyAssignment)
       THEN /\ outcome' = "assignment"
            /\ result' = EmptyAssignment
            /\ frame' = NoFrame
       ELSE \E var \in SelectUnassignedVariable(EmptyAssignment) :
            \E domain \in OrderDomainValues(var, EmptyAssignment) :
                /\ outcome' = BacktrackOutcome(domain)
                /\ result' = EmptyAssignment
                /\ frame' = [var |-> var,
                             tried |-> IF domain = <<>> THEN <<>> ELSE <<domain[1]>>,
                             checked |-> <<>>,
                             nested |-> <<>>]
    /\ UNCHANGED <<crossword, words, domains, queue, ac3ret, calls, entry, call>>

\* ------------------------------------------------------ the specifications

\* solve(): node consistency, one ac3 call, backtrack.
Next == EnforceNodeConsistency \/ Ac3Begin \/ Ac3Step \/ Ac3Exit \/ Backtrack

Spec == Init /\ [][Next]_vars

\* solve() under the scheduling of a sequential program: it takes its next
\* step whenever it has one.
FairSpec == Spec /\ WF_vars(Next)

\* A direct caller: node consistency, then ac3() up to MaxCalls times.
NextAc3 == EnforceNodeConsistency \/ Ac3Begin \/ Ac3Step \/ Ac3Exit \/ Ac3Again

SpecAc3 == Init /\ [][NextAc3]_vars

\* The direct caller of ac3 under the scheduling of a sequential program: a
\* call that has begun runs its loop until it returns.
FairSpecAc3 == SpecAc3 /\ WF_vars(Ac3Step \/ Ac3Exit)

\* ------------------------------------------------------------ direct calls

\* The assignments a caller passes: some of the variables, each with a word
\* of its length from the word list.
Assignments ==
    UNION {{a \in [S -> words] : \A v \in S : Len(a[v]) = crossword.length[v]} :
              S \in SUBSET Variables}

\* revise(x, y) called on two neighbors.
CallRevise ==
    /\ pc = "ac3_call"
    /\ \E x \in Variables : \E y \in Neighbors(x) :
           /\ domains' = Revise(domains, x, y)
           /\ call' = [op |-> "revise", x |-> x, y |-> y, before |-> domains,
                       ret |-> Revised(domains, x, y)]
    /\ pc' = "revised"
    /\ UNCHANGED <<crossword, words, queue, ac3ret, calls, entry, btcalls, outcome, result, frame>>

\* neighborhood(var)
CallNeighborhood ==
    /\ pc \in {"ac3_call", "revised"}
    /\ \E var \in Variables : \E arcs \in Neighborhood(var) :
           call' = [op |-> "neighborhood", var |-> var, ret |-> arcs]
    /\ pc' = "called"
    /\ UNCHANGED <<crossword, words, domains, queue, ac3ret, calls, entry, btcalls, outcome, result, frame>>

\* consistent(assignment)
CallConsistent ==
    /\ pc \in {"ac3_call", "revised"}
    /\ \E assignment \in Assignments :
           call' = [op |-> "consistent", assignment |-> assignment,
                    ret |-> Consistent(assignment)]
    /\ pc' = "called"
    /\ UNCHANGED <<crossword, words, domains, queue, ac3ret, calls, entry, btcalls, outcome, result, frame>>

\* select_unassigned_variable(assignment)
CallSelectUnassignedVariable ==
    /\ pc \in {"ac3_call", "revised"}
    /\ \E assignment \in Assignments :
       \E var \in SelectUnassignedVariable(assignment) :
           call' = [op |-> "select_unassigned_variable", assignment |-> assignment,
                    ret |-> var]
    /\ pc' = "called"
    /\ UNCHANGED <<crossword, words, domains, queue, ac3ret, calls, entry, btcalls, outcome, result, frame>>

\* order_domain_values(var, assignment)
CallOrderDomainValues ==
    /\ pc \in {"ac3_call", "revised"}
    /\ \E assignment \in Assignments :
       \E var \in Variables \ DOMAIN assignment :
       \E domain \in OrderDomainValues(var, assignment) :
           call' = [op |-> "order_domain_values", var |-> var,
                    assignment |-> assignment, ret |-> domain]
    /\ pc' = "called"
    /\ UNCHANGED <<crossword, words, domains, queue, ac3ret, calls, entry, btcalls, outcome, result, frame>>

\* A direct caller of the methods: node consistency, then possibly one
\* revise, then one of the four methods that only read.
NextCalls ==
    \/ EnforceNodeConsistency
    \/ CallRevise
    \/ CallNeighborhood
    \/ CallConsistent
    \/ CallSelectUnassignedVariable
    \/ CallOrderDomainValues

\* The object of a direct caller: one of Puzzles with one of its word lists.
InitCalls == Init /\ crossword \in Puzzles

SpecCalls == InitCalls /\ [][NextCalls]_vars

\* ------------------------------------------------- what the claims speak of

\* f assigns every variable a word of its length, no word twice, and the
\* letters of every neighboring pair agree at the overlap.
ValidComplete(f) ==
    /\ DOMAIN f = Variables
    /\ \A v \in Variables : Len(f[v]) = crossword.length[v]
    /\ \A u, v \in Variables : u # v => f[u] # f[v]
    /\ \A u \in Variables : \A v \in Neighbors(u) :
           f[u][Overlap(u, v)[1] + 1] = f[v][Overlap(u, v)[2] + 1]

\* Brute force: the valid complete assignments over the word list.
Solutions == {f \in [Variables -> words] : ValidComplete(f)}

\* The valid complete assignments contained in the domains dom.
SolutionsIn(dom) == {f \in Solutions : \A v \in Variables : f[v] \in dom[v]}

\* Every word of every domain has a partner, another word, in the domain of
\* each neighbor that agrees with it at the overlap.
ArcConsistent(dom) ==
    \A x \in Variables : \A y \in Neighbors(x) : \A w \in dom[x] :
        \E w2 \in dom[y] :
            /\ w2 # w
            /\ w[Overlap(x, y)[1] + 1] = w2[Overlap(x, y)[2] + 1]

\* -------------------------------------------------------------- the claims

\* C1: an assignment solve() returns assigns every variable a word, no word
\* to two variables, and the letters of neighbors agree at every overlap.
C1_ReturnedAssignmentValid == outcome = "assignment" => ValidComplete(result)

C1_Witness == pc = "done" /\ outcome = "assignment"

\* C2: when solve() returns None, brute force over the word list finds no
\* valid complete assignment.
C2_NoneMeansUnsatisfiable == outcome = "None" => Solutions = {}

C2_Witness ==
    /\ outcome = "None"
    /\ crossword = PuzzleChain
    /\ \A v \in Variables : entry[v] # {}

\* C3 (as claimed): solve() ends by returning a valid complete assignment or
\* None, never in another way.
C3_OnlyTwoOutcomes ==
    pc = "done" =>
        \/ outcome = "None"
        \/ outcome = "assignment" /\ ValidComplete(result)

\* C4: every run of solve() ends.
C4_SolveTerminates == <>(pc = "done")

C4_Witness ==
    /\ pc = "done"
    /\ crossword = PuzzleChain
    /\ ac3ret = "True"
    /\ \E v \in Variables : domains[v] # entry[v]

\* C5 (as claimed): when ac3(), called with no arcs on node-consistent
\* domains, returns True, the domains are arc-consistent.
C5_TrueMeansArcConsistent ==
    (pc = "ac3_ret" /\ ac3ret = "True") => ArcConsistent(domains)

\* C6: after enforce_node_consistency() the domain of every variable is
\* exactly the words of the word list that have the variable's length.
C6_NodeConsistencyExact ==
    pc = "ac3_call" =>
        \A v \in Variables :
            /\ \A w \in words : Len(w) # crossword.length[v] => w \notin domains[v]
            /\ \A w \in words : Len(w) = crossword.length[v] => w \in domains[v]
            /\ domains[v] \subseteq words

C6_Witness ==
    /\ pc = "ac3_call"
    /\ crossword = PuzzleChain
    /\ Cardinality(words) >= 2
    /\ domains["x"] = {}
    /\ domains["y"] = words

\* C7 (as claimed): ac3 returns True only with no domain empty.
C7_TrueMeansNoEmptyDomain ==
    (pc = "ac3_ret" /\ ac3ret = "True") => \A v \in Variables : domains[v] # {}

\* C8 (as claimed): after a failed initial ac3 pass backtrack is never invoked.
C8_NoBacktrackAfterFailure == ac3ret = "False" => btcalls = 0

\* C8 (amended): solve() invokes backtrack(dict()) once whatever the initial
\* ac3 pass returned; after a failed pass that call tries no candidate and
\* returns None, so solve() returns None.
C8_FailureStillEndsInNone ==
    pc = "done" =>
        /\ btcalls = 1
        /\ ac3ret = "False" => outcome = "None"

C8_Witness ==
    /\ pc = "done"
    /\ ac3ret = "False"
    /\ outcome = "None"
    /\ \E v \in Variables : domains[v] # {}

\* C9: a word ac3 has removed from the domain of x is the word of x in no
\* valid complete assignment drawn from the domains the call began with; the
\* valid complete assignments inside the domains stay the same.
C9_OnlyInfeasibleRemoved ==
    calls >= 1 =>
        /\ \A x \in Variables : \A w \in entry[x] \ domains[x] :
               \A f \in SolutionsIn(entry) : f[x] # w
        /\ SolutionsIn(domains) = SolutionsIn(entry)

C9_Witness ==
    /\ pc = "ac3_ret"
    /\ ac3ret = "True"
    /\ SolutionsIn(entry) # {}
    /\ \E x \in Variables : domains[x] # entry[x]

\* C10 (as claimed): a second ac3() right after one that returned True
\* removes no word and returns True.
C10_SecondAc3ChangesNothing ==
    calls >= 2 =>
        /\ domains = entry
        /\ pc = "ac3_ret" => ac3ret = "True"

C12_ExampleHasAssignment ==
    (pc = "done" /\ crossword = PuzzleCross /\ words = ExampleWords) =>
        outcome = "assignment" /\ ValidComplete(result)

\* C12 (amended): no two words of {CAT, DOG, TIP, ACE} have the same middle
\* letter, the cross has no valid complete assignment and solve() returns
\* None.
C12_ExampleIsUnsatisfiable ==
    (crossword = PuzzleCross /\ words = ExampleWords) =>
        /\ Solutions = {}
        /\ pc = "done" => outcome = "None"

C12_Witness == pc = "done" /\ crossword = PuzzleCross /\ words = ExampleWords

\* No two different words of the list agree at the offsets of the overlap of
\* x and y, whichever of the two is placed in x.
NoTwoAgree ==
    \A w, w2 \in words :
        w # w2 => w[Overlap("x", "y")[1] + 1] # w2[Overlap("x", "y")[2] + 1]

\* C13: two crossing variables of length 4 and a list of 4-letter words no
\* two of which agree at the overlap: solve() returns None.
C13_NoAgreeingPairIsUnsatisfiable ==
    (pc = "done" /\ crossword = PuzzleCross4 /\ NoTwoAgree) => outcome = "None"

C13_Witness ==
    /\ pc = "done"
    /\ crossword = PuzzleCross4
    /\ NoTwoAgree
    /\ Cardinality(words) >= 3
    /\ ac3ret = "False"
    /\ outcome = "None"

\* The words of an assignment are pairwise distinct, neighbors or not.
WordsDistinct(assignment) ==
    \A u, v \in DOMAIN assignment : u # v => assignment[u] # assignment[v]

\* Every two assigned neighbors carry the same letter in their shared cell.
OverlapsAgree(assignment) ==
    \A u \in DOMAIN assignment : \A v \in Neighbors(u) \cap DOMAIN assignment :
        assignment[u][Overlap(u, v)[1] + 1] = assignment[v][Overlap(u, v)[2] + 1]

\* C16: consistent(assignment) returns True exactly when no word is used by
\* two different assigned variables, neighbors or not, and the letters of
\* every two assigned neighbors agree at their overlap.  Violated: two
\* variables that do not cross may carry the same word and consistent still
\* returns True.
C16_ConsistentExact ==
    call.op = "consistent" =>
        (call.ret <=> (WordsDistinct(call.assignment) /\ OverlapsAgree(call.assignment)))

EliminationCount(var, assignment, word) ==
    Cardinality({p \in UNION {{<<n, v>> : v \in domains[n]} :
                                  n \in Neighbors(var) \ DOMAIN assignment} :
                    p[2][Overlap(var, p[1])[2] + 1] # word[Overlap(var, p[1])[1] + 1]})

\* C18: order_domain_values(var, assignment) returns every word of
\* domains[var] exactly once, in non-decreasing order of the elimination
\* count, to which assigned neighbors contribute nothing.
C18_PermutationByEliminationCount ==
    call.op = "order_domain_values" =>
        /\ Len(call.ret) = Cardinality(domains[call.var])
        /\ {call.ret[k] : k \in DOMAIN call.ret} = domains[call.var]
        /\ \A k, l \in DOMAIN call.ret : k < l =>
               EliminationCount(call.var, call.assignment, call.ret[k])
                   <= EliminationCount(call.var, call.assignment, call.ret[l])

\* y of the chain ordered with x assigned and z not: the words of x's domain
\* that disagree with the first word are not counted, and the counts of the
\* first and the last word of the list differ.
C18_Witness ==
    /\ call.op = "order_domain_values"
    /\ crossword = PuzzleChain
    /\ call.var = "y"
    /\ DOMAIN call.assignment = {"x"}
    /\ Len(call.ret) >= 2
    /\ \E value \in domains["x"] : value[1] # call.ret[1][1]
    /\ EliminationCount("y", call.assignment, call.ret[1])
           < EliminationCount("y", call.assignment, call.ret[Len(call.ret)])

\* C20: revise(x, y) removes from domains[x] exactly the words without a
\* partner in domains[y] (a different word with the same letter at the
\* overlap), returns True if and only if a word was removed, and leaves the
\* domain of every other variable, y included, unchanged.
C20_ReviseExact ==
    call.op = "revise" =>
        LET x == call.x
            y == call.y
            i == Overlap(x, y)[1]
            j == Overlap(x, y)[2]
        IN  /\ domains[x] = {w \in call.before[x] :
                                \E w2 \in call.before[y] : w2 # w /\ w[i + 1] = w2[j + 1]}
            /\ call.ret <=> (domains[x] # call.before[x])
            /\ \A v \in Variables \ {x} : domains[v] = call.before[v]

\* A revise that removed a word of x's domain that y's domain holds too, and
\* kept another.
C20_Witness ==
    /\ call.op = "revise"
    /\ call.ret
    /\ domains[call.x] # {}
    /\ (call.before[call.x] \ domains[call.x]) \cap domains[call.y] # {}

\* C15: in backtrack the assignment handed to the consistency check (and to
\* the recursive call) is the tentatively extended one: for the candidate
\* the loop has reached, consistent was called with an assignment that maps
\* the selected variable to that candidate.  Violated: the loop raises
\* NameError on its first candidate before anything is handed to consistent.
C15_CandidateCheckedInExtendedAssignment ==
    pc = "done" =>
        \A k \in DOMAIN frame.tried :
            \E c \in DOMAIN frame.checked :
                /\ frame.var \in DOMAIN frame.checked[c]
                /\ frame.checked[c][frame.var] = frame.tried[k]

\* C19: the arcs backtrack takes from neighborhood(v) to seed the lookahead
\* ac3 are exactly the arcs (n, v), one for every neighbor n of v.  Violated:
\* neighborhood(v) returns the arcs (v, n).
C19_SeedsAreArcsIntoVar ==
    call.op = "neighborhood" =>
        /\ {call.ret[k] : k \in DOMAIN call.ret} = {<<n, call.var>> : n \in Neighbors(call.var)}
        /\ Len(call.ret) = Cardinality(Neighbors(call.var))

\* No step adds a word to a domain.
DomainsOnlyShrink == \A v \in Variables : domains'[v] \subseteq domains[v]

\* A loop iteration that leaves more in the worklist than the rest of it has
\* removed a word from a domain.
RequeueOnlyAfterRemoval ==
    (pc = "ac3_loop" /\ pc' = "ac3_loop" /\ Len(queue') >= Len(queue)) =>
        \E v \in Variables : domains'[v] # domains[v]

\* C21: every call of ac3 terminates, the first and every later one: a call
\* that is in its loop returns, no step adds a word to a domain, and an arc
\* is appended to the worklist only by an iteration that removed a word.
C21_Ac3Terminates ==
    /\ (pc = "ac3_loop") ~> (pc = "ac3_ret")
    /\ [][DomainsOnlyShrink /\ RequeueOnlyAfterRemoval]_vars

\* A second call of ac3 on the chain that removed a word, re-enqueued after
\* it, and returned True.
C21_Witness ==
    /\ pc = "ac3_ret"
    /\ calls >= 2
    /\ crossword = PuzzleChain
    /\ ac3ret = "True"
    /\ \E v \in Variables : domains[v] # entry[v] /\ domains[v] # {}

\* An ordered pair of distinct neighboring variables with a defined overlap.
IsArc(arc) ==
    /\ arc[1] \in Variables
    /\ arc[2] \in Variables
    /\ arc[1] # arc[2]
    /\ arc[2] \in Neighbors(arc[1])
    /\ arc \in DOMAIN crossword.overlaps

\* Every ordered neighbor pair is in the worklist q exactly once.
EveryArcOnce(q) ==
    /\ \A v \in Variables : \A n \in Neighbors(v) : \E k \in DOMAIN q : q[k] = <<v, n>>
    /\ \A k, l \in DOMAIN q : q[k] = q[l] => k = l

\* C23: in every ac3 call solve makes, every arc of the worklist is an
\* ordered pair of distinct neighbors with a defined overlap, and so is every
\* arc neighborhood(var) hands out as the seed of a lookahead; the worklist
\* the initial pass begins with holds every ordered neighbor pair exactly once.
C23_WorklistHoldsArcs ==
    /\ [](/\ \A k \in DOMAIN queue : IsArc(queue[k])
          /\ \A v \in Variables : \A arcs \in Neighborhood(v) :
                 \A k \in DOMAIN arcs : IsArc(arcs[k]))
    /\ [][(pc = "ac3_call" /\ pc' = "ac3_loop") => EveryArcOnce(queue')]_vars

\* The worklist of the chain after a re-enqueue: it holds an arc twice.
C23_Witness ==
    /\ pc = "ac3_loop"
    /\ crossword = PuzzleChain
    /\ \E k, l \in DOMAIN queue : k # l /\ queue[k] = queue[l]

\* C22: the assignment starts empty and grows by one variable per recursion
\* level: for a candidate of a variable without neighbors, which no
\* consistency check and no lookahead can reject, backtrack calls itself with
\* the assignment of exactly one more entry, the variable with the candidate;
\* and backtrack is entered at most once per variable besides the outermost
\* call.  Violated: the loop raises NameError on its first candidate and no
\* nested call is ever made, so the assignment never grows.
C22_AssignmentGrowsPerLevel ==
    /\ btcalls <= Cardinality(Variables) + 1
    /\ (pc = "done" /\ frame.tried # <<>> /\ Neighbors(frame.var) = {}) =>
           \E n \in DOMAIN frame.nested :
               /\ DOMAIN frame.nested[n] = DOMAIN EmptyAssignment \cup {frame.var}
               /\ frame.nested[n][frame.var] = frame.tried[1]

============================================================================
